---- MODULE Spec2Model ----
(***************************************************************************)
(* Model of the Geniusglider service worker (src/sw.js): the request       *)
(* interception engine with its three caching strategies, the cache        *)
(* partitions, the install / activate lifecycle, the expiry test, and the  *)
(* background-sync drain of the offline forms store.                       *)
(*                                                                         *)
(* A URL is a sequence of string chunks whose concatenation is the URL,    *)
(* so that String.includes / startsWith / URL.pathname are computed on     *)
(* the chunks instead of being assumed.                                    *)
(***************************************************************************)
EXTENDS Integers, Sequences, FiniteSets, TLC

\* ---------------------------------------------------------------- bounds
MaxRequests == 2     \* fetch events dispatched in one behaviour
MaxTicks == 2        \* clock advances in one behaviour
MaxInFlight == 2     \* fetch handlers that may be suspended at once

\* ------------------------------------------------------------- constants
\* A cache name is a sequence of chunks too: the application prefix, then the rest.
STATIC_CACHE_NAME == <<"geniusglider-", "static-v1.0.0">>
DYNAMIC_CACHE_NAME == <<"geniusglider-", "dynamic-v1.0.0">>

Origin == <<"http", "s://geniusglider.com">>

STATIC_FILES ==
  { <<"/">>,
    <<"/", "index.html">>,
    <<"/", "assets", "/", "css", "/", "critical.css">>,
    <<"/", "assets", "/", "css", "/", "styles.css">>,
    <<"/", "assets", "/", "js", "/", "app.js">>,
    <<"/", "assets", "/", "images", "/", "logo.svg">>,
    <<"/", "assets", "/", "images", "/", "logo-white.svg">>,
    <<"/", "manifest.json">> }

NETWORK_FIRST ==
  { <<"/", "api", "/">>,
    <<"/", "contact">>,
    <<"?", "fresh=true">> }

\* Times are in seconds, the resolution of the Date header (the source counts
\* milliseconds; TLC's integers are 32 bits wide and 30 days of milliseconds are not).
CACHE_MAX_AGE ==
  [ static  |-> 30 * 24 * 60 * 60,
    dynamic |-> 7 * 24 * 60 * 60,
    api     |-> 60 * 60 ]

\* One clock advance: 16 days, so that one advance outlives the api and
\* dynamic classes and two advances outlive the static class.
TickSeconds == 16 * 24 * 60 * 60

\* ------------------------------------------------------------ values
Undefined == [kind |-> "undefined"]     \* a cache miss, or a promise resolved with no value
Pending   == [kind |-> "pending"]       \* the strategy's promise has not settled
Thrown    == [kind |-> "throw"]         \* the strategy's promise rejected

NoDate == -1                            \* the response carries no Date header

Response(url, status, body, date) ==
  [kind |-> "response", url |-> url, status |-> status, body |-> body, date |-> date]

\* new Response('Offline'): status 200, empty url, no headers
OfflineResponse == Response(<<>>, 200, "Offline", NoDate)

IsResponse(x) == x.kind = "response"

\* JavaScript truthiness of the values a strategy handles: a Response object or a
\* Promise is truthy, undefined is falsy.
Truthy(x) == x.kind # "undefined"

\* ------------------------------------------------------------ URL shape
\* String.prototype.includes on chunk sequences
Includes(s, p) ==
  \E i \in 1..(Len(s) - Len(p) + 1) : SubSeq(s, i, i + Len(p) - 1) = p

\* String.prototype.startsWith('http')
StartsWithHttp(url) == Len(url) > 0 /\ url[1] = "http"

\* new URL(url).pathname: what follows the origin, up to the query
RECURSIVE UpToQuery(_)
UpToQuery(s) ==
  IF s = <<>> \/ Head(s) = "?" THEN <<>> ELSE <<Head(s)>> \o UpToQuery(Tail(s))

Pathname(url) == UpToQuery(SubSeq(url, 3, Len(url)))

\* (mutation of shouldUseNetworkFirst: the URL is compared with the pattern instead
\* of searched for it)
shouldUseNetworkFirst_Equality(request) ==
  \E pattern \in NETWORK_FIRST : request.url = pattern

shouldUseNetworkFirst(request) ==
  \E pattern \in NETWORK_FIRST : Includes(request.url, pattern)

isStaticAsset(request) ==
  \/ Pathname(request.url) \in STATIC_FILES
  \/ Includes(request.url, <<"/", "assets", "/">>)

getCacheName(request) ==
  IF isStaticAsset(request) THEN STATIC_CACHE_NAME ELSE DYNAMIC_CACHE_NAME

\* (mutation of isCacheExpired: an entry expires when its age reaches the max-age)
isCacheExpired_AtMaxAge(response, now) ==
  LET cachedDate == IF response.date # NoDate THEN response.date ELSE now
      age == now - cachedDate
  IN  IF Includes(response.url, <<"/", "api", "/">>)
        THEN age >= CACHE_MAX_AGE.api
        ELSE IF isStaticAsset([url |-> response.url])
               THEN age >= CACHE_MAX_AGE.static
               ELSE age >= CACHE_MAX_AGE.dynamic

\* (mutation of isCacheExpired: the static-asset rule is tested before the API marker)
isCacheExpired_StaticFirst(response, now) ==
  LET cachedDate == IF response.date # NoDate THEN response.date ELSE now
      age == now - cachedDate
  IN  IF isStaticAsset([url |-> response.url])
        THEN age > CACHE_MAX_AGE.static
        ELSE IF Includes(response.url, <<"/", "api", "/">>)
               THEN age > CACHE_MAX_AGE.api
               ELSE age > CACHE_MAX_AGE.dynamic

isCacheExpired(response, now) ==
  LET cachedDate == IF response.date # NoDate THEN response.date ELSE now
      age == now - cachedDate
  IN  IF Includes(response.url, <<"/", "api", "/">>)
        THEN age > CACHE_MAX_AGE.api
        ELSE IF isStaticAsset([url |-> response.url])
               THEN age > CACHE_MAX_AGE.static
               ELSE age > CACHE_MAX_AGE.dynamic

\* ------------------------------------------------------------ cache storage
\* CacheStorage: the named caches in creation order; a cache is a set of stored
\* responses, at most one per request URL.
CacheNames(cs) == { cs[i].name : i \in 1..Len(cs) }

CacheIndex(cs, name) == CHOOSE i \in 1..Len(cs) : cs[i].name = name

\* Cache.match(request), scoped to one cache
MatchIn(entries, url) ==
  IF \E e \in entries : e.url = url
    THEN CHOOSE e \in entries : e.url = url
    ELSE Undefined

\* (mutation of MatchAll: only the oldest cache is searched)
MatchAll_OldestOnly(cs, url) ==
  IF cs = <<>> THEN Undefined ELSE MatchIn(Head(cs).entries, url)

\* caches.match(request): the first cache, in creation order, that holds the request
RECURSIVE MatchAll(_, _)
MatchAll(cs, url) ==
  IF cs = <<>> THEN Undefined
  ELSE IF Truthy(MatchIn(Head(cs).entries, url))
         THEN MatchIn(Head(cs).entries, url)
         ELSE MatchAll(Tail(cs), url)

\* (mutation of MatchCache: caches.match is called where cache.match is meant)
MatchCache_AnyCache(cs, name, url) == MatchAll(cs, url)

\* cache.match(request) on the opened cache called name
MatchCache(cs, name, url) ==
  IF name \in CacheNames(cs)
    THEN MatchIn(cs[CacheIndex(cs, name)].entries, url)
    ELSE Undefined

\* caches.open(name): creates the cache when it does not exist
OpenCache(cs, name) ==
  IF name \in CacheNames(cs) THEN cs ELSE Append(cs, [name |-> name, entries |-> {}])

\* (mutation of PutIn: the put leaves no other entry in the cache)
PutIn_Alone(cs, name, resp) ==
  IF name \in CacheNames(cs)
    THEN [cs EXCEPT ![CacheIndex(cs, name)].entries = {resp}]
    ELSE cs

\* cache.put(request, response): overwrites the entry of the same request
PutIn(cs, name, resp) ==
  IF name \in CacheNames(cs)
    THEN [cs EXCEPT ![CacheIndex(cs, name)].entries =
            { e \in @ : e.url # resp.url } \cup {resp}]
    ELSE cs

\* caches.delete(name)
RECURSIVE DeleteCache(_, _)
DeleteCache(cs, name) ==
  IF cs = <<>> THEN <<>>
  ELSE IF Head(cs).name = name THEN Tail(cs)
       ELSE <<Head(cs)>> \o DeleteCache(Tail(cs), name)

\* String.prototype.startsWith('geniusglider-')
HasAppPrefix(name) == Len(name) > 0 /\ name[1] = "geniusglider-"

\* ------------------------------------------------------------ inputs
Url(path) == Origin \o path

Bodies == {"b1", "b2"}
Statuses == {200, 404}

Request(path, method, mode) == [url |-> Url(path), method |-> method, mode |-> mode]

\* The requests the page issues
Requests ==
  { Request(<<"/">>, "GET", "navigate"),
    Request(<<"/", "assets", "/", "css", "/", "styles.css">>, "GET", "no-cors"),
    Request(<<"/", "api", "/", "data">>, "GET", "cors"),
    Request(<<"/", "offline.html">>, "GET", "navigate"),
    Request(<<"/", "api", "/", "consultation">>, "POST", "cors"),
    [url |-> <<"chrome-extension", "://abc/", "x.js">>, method |-> "GET", mode |-> "no-cors"] }

NoRequest == [url |-> <<>>, method |-> "", mode |-> ""]

\* What the cache storage of the origin may hold when the worker script is first run:
\* nothing, or the partitions of the previous version and a cache of another library.
InitialCaches ==
  { <<>>,
    << [name |-> <<"geniusglider-", "static-v0.9.0">>,
        entries |-> { Response(Url(<<"/">>), 200, "b0", 0) }],
       [name |-> <<"third-party-cache">>,
        entries |-> { Response(Url(<<"/", "offline.html">>), 200, "b0", NoDate) }] >> }

\* ------------------------------------------------------------ state
VARIABLES
  caches,     \* CacheStorage: sequence of [name, entries]
  phase,      \* lifecycle of the worker
  sweep,      \* activate: the cache names whose deletion is outstanding
  handlers,   \* the strategy calls in flight, oldest first
  puts,       \* cache.put calls issued and not yet completed
  tick,       \* the clock, in advances of TickSeconds
  started,    \* fetch events dispatched so far
  atKeys,     \* activate: the cache storage as caches.keys() found it
  legacy,     \* the strategy call of the previous version still outstanding, if any
  store,      \* the offlineForms object store: the records it holds
  nextId,     \* the key the object store's generator gives the next record
  drains,     \* the handleOfflineFormSubmission calls in flight, oldest first
  succeeded,  \* the ids whose replay has received an ok response
  deleted,    \* the ids that have been deleted from the object store
  faults,     \* network and storage failures the environment may still cause
  entry,      \* expiry check: the stored response under test
  clock,      \* expiry check: the time, in seconds
  expired     \* expiry check: the value isCacheExpired returned for entry at clock, if any

cacheVars == <<caches, phase, sweep, handlers, puts, tick, started, atKeys, legacy>>

queueVars == <<store, nextId, drains, succeeded, deleted, faults>>

expiryVars == <<entry, clock, expired>>

vars == <<caches, phase, sweep, handlers, puts, tick, started, atKeys, legacy,
          store, nextId, drains, succeeded, deleted, faults,
          entry, clock, expired>>

Now == tick * TickSeconds

\* A strategy call before its first step. cached, fallback and offline are the values
\* of its three cache lookups (the try block's, the catch block's, the offline
\* page's), net the network response; trace lists what it has done so far; owed is
\* the response a finished call has already returned for the same request while
\* its cache.put was still outstanding when this call was dispatched.
IdleHandler ==
  [pc |-> "idle", strategy |-> "", req |-> NoRequest, cached |-> Undefined,
   fallback |-> Undefined, offline |-> Undefined, net |-> Undefined,
   result |-> Pending, bg |-> "none", trace |-> <<>>, owed |-> Undefined]

Init ==
  /\ caches \in InitialCaches
  /\ phase = "parsed"
  /\ sweep = {}
  /\ handlers = <<>>
  /\ puts = {}
  /\ tick = 0
  /\ started = 0
  /\ atKeys = <<>>
  /\ legacy = "none"
  /\ store = {}
  /\ nextId = 1
  /\ drains = <<>>
  /\ succeeded = {}
  /\ deleted = {}
  /\ faults = 0
  /\ entry = Undefined
  /\ clock = 0
  /\ expired = {}

\* What fetch(request) may resolve with (its rejection is a separate step): a 200
\* carries one of the bodies the server has had, an error status carries none.
NetworkOutcomes ==
  { [status |-> 200, body |-> b] : b \in Bodies } \cup
  { [status |-> st, body |-> ""] : st \in Statuses \ {200} }

\* the response object of an outcome, dated by the server at the time it answers
NetworkResponse(url, outcome) == Response(url, outcome.status, outcome.body, Now)

\* ------------------------------------------------------------ install
\* install listener: event.waitUntil(caches.open(STATIC_CACHE_NAME) ...)
InstallStart ==
  /\ phase = "parsed"
  /\ phase' = "install_open"
  /\ UNCHANGED <<caches, sweep, handlers, puts, tick, started>>
  /\ UNCHANGED <<atKeys, legacy, queueVars, expiryVars>>

\* caches.open resolves; cache.addAll(STATIC_FILES) is issued
InstallOpen ==
  /\ phase = "install_open"
  /\ caches' = OpenCache(caches, STATIC_CACHE_NAME)
  /\ phase' = "install_addAll"
  /\ UNCHANGED <<sweep, handlers, puts, tick, started>>
  /\ UNCHANGED <<atKeys, legacy, queueVars, expiryVars>>

RECURSIVE PutAll(_, _, _)
PutAll(cs, name, resps) ==
  IF resps = {} THEN cs
  ELSE LET r == CHOOSE x \in resps : TRUE
       IN  PutAll(PutIn(cs, name, r), name, resps \ {r})

\* addAll resolves: every file was fetched with an ok status and all are stored;
\* then skipWaiting, and the promise given to waitUntil is fulfilled
InstallAddAllOk ==
  /\ phase = "install_addAll"
  /\ caches' = PutAll(caches, STATIC_CACHE_NAME,
                     { Response(Url(f), 200, "b1", Now) : f \in STATIC_FILES })
  /\ phase' = "installed"
  /\ UNCHANGED <<sweep, handlers, puts, tick, started>>
  /\ UNCHANGED <<atKeys, legacy, queueVars, expiryVars>>

\* addAll rejects (a file could not be fetched): nothing is stored; .catch logs the
\* error, so the promise given to waitUntil is fulfilled all the same
InstallAddAllFail ==
  /\ phase = "install_addAll"
  /\ phase' = "installed"
  /\ UNCHANGED <<caches, sweep, handlers, puts, tick, started>>
  /\ UNCHANGED <<atKeys, legacy, queueVars, expiryVars>>

\* ------------------------------------------------------------ activate
\* activate listener: event.waitUntil(caches.keys() ...)
ActivateStart ==
  /\ phase = "installed"
  /\ phase' = "activate_keys"
  /\ UNCHANGED <<caches, sweep, handlers, puts, tick, started>>
  /\ UNCHANGED <<atKeys, legacy, queueVars, expiryVars>>

\* (mutation of IsStaleCache: the test of the application prefix is missing)
IsStaleCache_AnyOther(cacheName) ==
  /\ cacheName # STATIC_CACHE_NAME
  /\ cacheName # DYNAMIC_CACHE_NAME

\* the condition under which the sweep deletes a cache
IsStaleCache(cacheName) ==
  /\ cacheName # STATIC_CACHE_NAME
  /\ cacheName # DYNAMIC_CACHE_NAME
  /\ HasAppPrefix(cacheName)

\* caches.keys() resolves; a caches.delete is issued for every stale name
ActivateKeys ==
  /\ phase = "activate_keys"
  /\ atKeys' = caches
  /\ sweep' = { n \in CacheNames(caches) : IsStaleCache(n) }
  /\ phase' = "activate_delete"
  /\ UNCHANGED <<caches, handlers, puts, tick, started>>
  /\ UNCHANGED <<legacy, queueVars, expiryVars>>

\* one caches.delete completes
ActivateDelete(n) ==
  /\ phase = "activate_delete"
  /\ n \in sweep
  /\ caches' = DeleteCache(caches, n)
  /\ sweep' = sweep \ {n}
  /\ UNCHANGED <<phase, handlers, puts, tick, started>>
  /\ UNCHANGED <<atKeys, legacy, queueVars, expiryVars>>

\* (mutation of ActivateClaim: the deletions are not waited for)
ActivateClaim_NoWait ==
  /\ phase = "activate_delete"
  /\ phase' = "activated"
  /\ UNCHANGED <<caches, sweep, handlers, puts, tick, started>>
  /\ UNCHANGED <<atKeys, legacy, queueVars, expiryVars>>

\* Promise.all resolves, then clients.claim()
ActivateClaim ==
  /\ phase = "activate_delete"
  /\ sweep = {}
  /\ phase' = "activated"
  /\ UNCHANGED <<caches, sweep, handlers, puts, tick, started>>
  /\ UNCHANGED <<atKeys, legacy, queueVars, expiryVars>>

\* ------------------------------------------------------------ handlers
\* the calls in flight
Calls == DOMAIN handlers

\* a strategy's promise has settled and respondWith has not yet taken its value
Settled == \E h \in Calls : handlers[h].pc = "done" /\ handlers[h].bg # "pending"

\* a step of call h: respondWith takes the value of a settled promise before any
\* other task runs
Others(h) == ~Settled /\ UNCHANGED <<phase, sweep, tick, started>> /\ UNCHANGED <<atKeys, legacy, queueVars, expiryVars>>

\* call h is in flight and suspended at pc
At(h, pc) == h \in Calls /\ handlers[h].pc = pc

\* call h is in flight and its stale-while-revalidate fetch is outstanding
Fetching(h) == h \in Calls /\ handlers[h].bg = "pending"

Log(hd, events) == [hd EXCEPT !.trace = @ \o events]

\* `return value`: the strategy's promise is fulfilled with value
Return(hd, value) == [hd EXCEPT !.result = value, !.pc = "done"]

\* `throw error`: the strategy's promise is rejected
Throw(hd) == [hd EXCEPT !.result = Thrown, !.pc = "done"]

\* a promise that is still outstanding, as a JavaScript value (always truthy)
PromiseOf(label) == [kind |-> "promise", waits |-> label]

\* a || b
OrElse(a, b) == IF Truthy(a) THEN a ELSE b

\* `return x` in an async function: a promise is awaited, anything else is the result
ReturnOrAwait(hd, x) ==
  IF x.kind = "promise" THEN [hd EXCEPT !.pc = x.waits] ELSE Return(hd, x)

\* ------------------------------------------------------------ cache first
\* (mutation of FreshHit: the negation of the expiry test is lost)
FreshHit_NegationLost(cachedResponse, now) ==
  Truthy(cachedResponse) /\ isCacheExpired(cachedResponse, now)

\* the test `cachedResponse && !isCacheExpired(cachedResponse)`
FreshHit(cachedResponse, now) ==
  Truthy(cachedResponse) /\ ~isCacheExpired(cachedResponse, now)

\* (mutation of FallbackHit: the fallback refuses an expired entry)
FallbackHit_FreshOnly(cachedResponse, now) ==
  Truthy(cachedResponse) /\ ~isCacheExpired(cachedResponse, now)

\* the catch blocks' test `if (cachedResponse)`: expiry is not consulted
FallbackHit(cachedResponse, now) == Truthy(cachedResponse)

\* (mutation of Storable: the status is not tested)
Storable_AnyStatus(networkResponse) == Truthy(networkResponse)

\* the test `networkResponse && networkResponse.status === 200`
Storable(networkResponse) ==
  Truthy(networkResponse) /\ networkResponse.status = 200

\* cacheFirstStrategy is called: caches.match(request) is issued
CFEnter(request) ==
  [IdleHandler EXCEPT !.pc = "cf_match", !.strategy = "cacheFirst", !.req = request]

\* caches.match resolves: a fresh hit is returned, otherwise fetch(request) is issued
CFMatch(h) ==
  LET hd == handlers[h]
      cachedResponse == MatchAll(caches, hd.req.url)
      looked == [Log(hd, <<"match">>) EXCEPT !.cached = cachedResponse]
  IN  /\ At(h, "cf_match")
      /\ handlers' = [handlers EXCEPT ![h] =
           IF FreshHit(cachedResponse, Now)
             THEN Return(looked, cachedResponse)
             ELSE [Log(looked, <<"fetch">>) EXCEPT !.pc = "cf_fetch"]]
      /\ UNCHANGED <<caches, puts>>
      /\ Others(h)

\* fetch resolves with a response: a 200 goes on to caches.open, anything else is
\* returned as it is
CFFetchOk(h, outcome) ==
  LET networkResponse == NetworkResponse(handlers[h].req.url, outcome)
      hd == Log(handlers[h], <<"fetchOk">>)
  IN  /\ At(h, "cf_fetch")
      /\ handlers' = [handlers EXCEPT ![h] =
           IF Storable(networkResponse)
             THEN [hd EXCEPT !.net = networkResponse, !.pc = "cf_open"]
             ELSE Return([hd EXCEPT !.net = networkResponse], networkResponse)]
      /\ UNCHANGED <<caches, puts>>
      /\ Others(h)

\* fetch rejects: the catch block issues caches.match(request)
CFFetchFail(h) ==
  /\ At(h, "cf_fetch")
  /\ handlers' = [handlers EXCEPT ![h] =
       [Log(@, <<"fetchFail">>) EXCEPT !.pc = "cf_catch"]]
  /\ UNCHANGED <<caches, puts>>
  /\ Others(h)

\* caches.open resolves: cache.put is issued (and not awaited), the response returned
CFOpen(h) ==
  LET hd == handlers[h]
      name == getCacheName(hd.req)
  IN  /\ At(h, "cf_open")
      /\ caches' = OpenCache(caches, name)
      /\ puts' = puts \cup {[name |-> name, resp |-> hd.net]}
      /\ handlers' = [handlers EXCEPT ![h] = Return(Log(hd, <<"put">>), hd.net)]
      /\ Others(h)

\* catch block, caches.match resolves: the cached version even if expired; else the
\* offline page for a navigation; else the error is rethrown
CFCatchMatch(h) ==
  LET hd == Log(handlers[h], <<"match">>)
      cachedResponse == MatchAll(caches, hd.req.url)
  IN  /\ At(h, "cf_catch")
      /\ handlers' = [handlers EXCEPT ![h] =
           IF FallbackHit(cachedResponse, Now)
             THEN Return([hd EXCEPT !.fallback = cachedResponse], cachedResponse)
             ELSE IF hd.req.mode = "navigate"
                    THEN ReturnOrAwait(hd, OrElse(PromiseOf("cf_offline"), OfflineResponse))
                    ELSE Throw(hd)]
      /\ UNCHANGED <<caches, puts>>
      /\ Others(h)

\* caches.match('/offline.html') resolves, with the page or with undefined
CFOfflineMatch(h) ==
  LET page == MatchAll(caches, Url(<<"/", "offline.html">>))
  IN  /\ At(h, "cf_offline")
      /\ handlers' = [handlers EXCEPT ![h] =
           Return([Log(@, <<"matchOffline">>) EXCEPT !.offline = page], page)]
  /\ UNCHANGED <<caches, puts>>
  /\ Others(h)

cacheFirstStrategy(h) ==
  \/ CFMatch(h)
  \/ \E o \in NetworkOutcomes : CFFetchOk(h, o)
  \/ CFFetchFail(h)
  \/ CFOpen(h)
  \/ CFCatchMatch(h)
  \/ CFOfflineMatch(h)

\* ------------------------------------------------------------ network first
\* networkFirstStrategy is called: fetch(request) is issued
NFEnter(request) ==
  [IdleHandler EXCEPT !.pc = "nf_fetch", !.strategy = "networkFirst", !.req = request,
                      !.trace = <<"fetch">>]

NFFetchOk(h, outcome) ==
  LET networkResponse == NetworkResponse(handlers[h].req.url, outcome)
      hd == Log(handlers[h], <<"fetchOk">>)
  IN  /\ At(h, "nf_fetch")
      /\ handlers' = [handlers EXCEPT ![h] =
           IF Storable(networkResponse)
             THEN [hd EXCEPT !.net = networkResponse, !.pc = "nf_open"]
             ELSE Return([hd EXCEPT !.net = networkResponse], networkResponse)]
      /\ UNCHANGED <<caches, puts>>
      /\ Others(h)

\* fetch rejects: the catch block issues caches.match(request)
NFFetchFail(h) ==
  /\ At(h, "nf_fetch")
  /\ handlers' = [handlers EXCEPT ![h] =
       [Log(@, <<"fetchFail">>) EXCEPT !.pc = "nf_catch"]]
  /\ UNCHANGED <<caches, puts>>
  /\ Others(h)

\* (mutation of NFOpen: the partition is chosen by getCacheName)
NFOpen_ByShape(h) ==
  LET hd == handlers[h]
      name == getCacheName(hd.req)
  IN  /\ At(h, "nf_open")
      /\ caches' = OpenCache(caches, name)
      /\ puts' = puts \cup {[name |-> name, resp |-> hd.net]}
      /\ handlers' = [handlers EXCEPT ![h] = Return(Log(hd, <<"put">>), hd.net)]
      /\ Others(h)

\* caches.open(DYNAMIC_CACHE_NAME) resolves: cache.put is issued, the response returned
NFOpen(h) ==
  LET hd == handlers[h]
  IN  /\ At(h, "nf_open")
      /\ caches' = OpenCache(caches, DYNAMIC_CACHE_NAME)
      /\ puts' = puts \cup {[name |-> DYNAMIC_CACHE_NAME, resp |-> hd.net]}
      /\ handlers' = [handlers EXCEPT ![h] = Return(Log(hd, <<"put">>), hd.net)]
      /\ Others(h)

\* catch block, caches.match resolves: the cached response, else the error is rethrown
NFCatchMatch(h) ==
  LET hd == Log(handlers[h], <<"match">>)
      cachedResponse == MatchAll(caches, hd.req.url)
  IN  /\ At(h, "nf_catch")
      /\ handlers' = [handlers EXCEPT ![h] =
           IF FallbackHit(cachedResponse, Now)
             THEN Return([hd EXCEPT !.fallback = cachedResponse], cachedResponse)
             ELSE Throw(hd)]
      /\ UNCHANGED <<caches, puts>>
      /\ Others(h)

networkFirstStrategy(h) ==
  \/ \E o \in NetworkOutcomes : NFFetchOk(h, o)
  \/ NFFetchFail(h)
  \/ NFOpen(h)
  \/ NFCatchMatch(h)

\* ------------------------------------------------------------ stale while revalidate
\* staleWhileRevalidateStrategy is called: caches.open(DYNAMIC_CACHE_NAME) is issued
SWREnter(request) ==
  [IdleHandler EXCEPT !.pc = "swr_open", !.strategy = "staleWhileRevalidate",
                      !.req = request]

SWROpen(h) ==
  /\ At(h, "swr_open")
  /\ caches' = OpenCache(caches, DYNAMIC_CACHE_NAME)
  /\ handlers' = [handlers EXCEPT ![h].pc = "swr_match"]
  /\ UNCHANGED puts
  /\ Others(h)

\* cache.match resolves; fetch(request) is issued with its then/catch callbacks; a
\* fresh hit is returned at once, otherwise
\* `return fetchPromise || cachedResponse || new Response('Offline')`
SWRMatch(h) ==
  LET hd == handlers[h]
      cachedResponse == MatchCache(caches, DYNAMIC_CACHE_NAME, hd.req.url)
      fetchPromise == PromiseOf("swr_wait")
      looked == [Log(hd, <<"match", "fetch">>) EXCEPT
                   !.cached = cachedResponse, !.bg = "pending"]
  IN  /\ At(h, "swr_match")
      /\ handlers' = [handlers EXCEPT ![h] =
           IF FreshHit(cachedResponse, Now)
             THEN Return(looked, cachedResponse)
             ELSE ReturnOrAwait(looked,
                    OrElse(OrElse(fetchPromise, cachedResponse), OfflineResponse))]
      /\ UNCHANGED <<caches, puts>>
      /\ Others(h)

\* (mutation of SWRFetchOk: the then callback stores nothing)
SWRFetchOk_NoStore(h, outcome) ==
  LET networkResponse == NetworkResponse(handlers[h].req.url, outcome)
      hd == [Log(handlers[h], <<"fetchOk">>) EXCEPT !.bg = "done", !.net = networkResponse]
  IN  /\ Fetching(h)
      /\ handlers' = [handlers EXCEPT ![h] =
           IF hd.pc = "swr_wait" THEN Return(hd, networkResponse) ELSE hd]
      /\ UNCHANGED <<caches, puts>>
      /\ Others(h)

\* the fetch resolves: the then callback issues cache.put for a 200 and hands the
\* response on, to the caller too when the strategy returned fetchPromise
SWRFetchOk(h, outcome) ==
  LET networkResponse == NetworkResponse(handlers[h].req.url, outcome)
      hd == [Log(handlers[h], <<"fetchOk">>) EXCEPT !.bg = "done", !.net = networkResponse]
  IN  /\ Fetching(h)
      /\ puts' = IF Storable(networkResponse)
                   THEN puts \cup {[name |-> DYNAMIC_CACHE_NAME, resp |-> networkResponse]}
                   ELSE puts
      /\ handlers' = [handlers EXCEPT ![h] =
           IF hd.pc = "swr_wait" THEN Return(hd, networkResponse) ELSE hd]
      /\ UNCHANGED caches
      /\ Others(h)

\* the fetch rejects: the catch callback logs and yields undefined
SWRFetchFail(h) ==
  LET hd == [Log(handlers[h], <<"fetchFail">>) EXCEPT !.bg = "done"]
  IN  /\ Fetching(h)
      /\ handlers' = [handlers EXCEPT ![h] =
           IF hd.pc = "swr_wait" THEN Return(hd, Undefined) ELSE hd]
      /\ UNCHANGED <<caches, puts>>
      /\ Others(h)

staleWhileRevalidateStrategy(h) ==
  \/ SWROpen(h)
  \/ SWRMatch(h)
  \/ \E o \in NetworkOutcomes : SWRFetchOk(h, o)
  \/ SWRFetchFail(h)

\* ------------------------------------------------------------ fetch event
\* the strategy the fetch listener hands the request to
SelectStrategy(request) ==
  IF shouldUseNetworkFirst(request) THEN NFEnter(request)
  ELSE IF isStaticAsset(request) THEN CFEnter(request)
  ELSE SWREnter(request)

\* (mutation of PassedThrough: the test of the request method is missing)
PassedThrough_HttpOnly(request) == ~StartsWithHttp(request.url)

\* (mutation of PassedThrough: the test of the URL scheme is missing)
PassedThrough_GetOnly(request) == request.method # "GET"

\* requests the listener returns from without calling respondWith
PassedThrough(request) ==
  request.method # "GET" \/ ~StartsWithHttp(request.url)

\* the response a cacheFirstStrategy call has returned for this request and whose
\* cache.put into the static partition is still outstanding
Owed(request) ==
  LET ps == { p \in puts : p.name = STATIC_CACHE_NAME /\ p.resp.url = request.url }
  IN  IF ps = {} THEN Undefined ELSE (CHOOSE p \in ps : TRUE).resp

FetchEvent(request) ==
  /\ phase = "activated"
  /\ ~Settled
  /\ started < MaxRequests
  /\ Len(handlers) < MaxInFlight
  /\ started' = started + 1
  /\ handlers' = IF PassedThrough(request)
                   THEN handlers
                   ELSE Append(handlers,
                               [SelectStrategy(request) EXCEPT !.owed = Owed(request)])
  /\ UNCHANGED <<caches, phase, sweep, puts, tick>>
  /\ UNCHANGED <<atKeys, legacy, queueVars, expiryVars>>

\* respondWith has taken the settled value and the background fetch is over: the
\* call is finished
Release(h) ==
  /\ At(h, "done")
  /\ handlers[h].bg # "pending"
  /\ handlers' = SubSeq(handlers, 1, h - 1) \o SubSeq(handlers, h + 1, Len(handlers))
  /\ UNCHANGED <<caches, phase, sweep, puts, tick, started>>
  /\ UNCHANGED <<atKeys, legacy, queueVars, expiryVars>>

\* a cache.put that was issued completes
PutComplete(p) ==
  /\ p \in puts
  /\ caches' = PutIn(caches, p.name, p.resp)
  /\ puts' = puts \ {p}
  /\ UNCHANGED <<phase, sweep, handlers, tick, started>>
  /\ UNCHANGED <<atKeys, legacy, queueVars, expiryVars>>

\* no strategy call is suspended and no cache write is outstanding
Quiescent ==
  /\ puts = {}
  /\ handlers = <<>>

\* time passes: an advance is 16 days, far longer than a request stays outstanding,
\* so the clock advances between requests
Tick ==
  /\ phase = "activated"
  /\ Quiescent
  /\ tick < MaxTicks
  /\ tick' = tick + 1
  /\ UNCHANGED <<caches, phase, sweep, handlers, puts, started>>
  /\ UNCHANGED <<atKeys, legacy, queueVars, expiryVars>>

Next ==
  \/ InstallStart \/ InstallOpen \/ InstallAddAllOk \/ InstallAddAllFail
  \/ ActivateStart \/ ActivateKeys \/ ActivateClaim
  \/ \E n \in sweep : ActivateDelete(n)
  \/ \E r \in Requests : FetchEvent(r)
  \/ \E h \in 1..MaxInFlight : cacheFirstStrategy(h)
  \/ \E h \in 1..MaxInFlight : networkFirstStrategy(h)
  \/ \E h \in 1..MaxInFlight : staleWhileRevalidateStrategy(h)
  \/ \E h \in 1..MaxInFlight : Release(h)
  \/ \E p \in puts : PutComplete(p)
  \/ Tick

Spec == Init /\ [][Next]_vars

\* ============================================================ properties
Has(seq, e) == \E i \in DOMAIN seq : seq[i] = e

\* this step is a step of call h, which leaves the suspension point `from`
Steps(h, from) ==
  /\ At(h, from)
  /\ Len(handlers') = Len(handlers)
  /\ handlers'[h].pc # from

\* the entry the cache storage holds for url: that of the oldest cache holding one
StoredAnywhere(url) ==
  LET holders == { i \in 1..Len(caches) : \E e \in caches[i].entries : e.url = url }
  IN  IF holders = {} THEN Undefined
      ELSE LET first == CHOOSE i \in holders : \A j \in holders : i <= j
           IN  CHOOSE e \in caches[first].entries : e.url = url

\* the entry the cache called name holds for url
StoredIn(name, url) ==
  IF \E i \in 1..Len(caches) : caches[i].name = name /\ \E e \in caches[i].entries : e.url = url
    THEN LET i == CHOOSE k \in 1..Len(caches) : caches[k].name = name
         IN  CHOOSE e \in caches[i].entries : e.url = url
    ELSE Undefined

Returned(hd) == hd.pc = "done"

\* C1: cacheFirstStrategy: when its lookup finds an entry for the request that is not
\* expired at that time, the call returns that entry in the same step and has issued
\* no network fetch.
C1_CacheFirstFreshHit ==
  [][\A h \in 1..MaxInFlight :
       Steps(h, "cf_match") =>
         LET c == StoredAnywhere(handlers[h].req.url)
         IN  (Truthy(c) /\ ~isCacheExpired(c, Now)) =>
               /\ Returned(handlers'[h])
               /\ handlers'[h].result = c
               /\ ~Has(handlers'[h].trace, "fetch")]_vars

C1_Witness ==
  \E h \in Calls :
    /\ handlers[h].strategy = "cacheFirst"
    /\ Returned(handlers[h])
    /\ Truthy(handlers[h].cached)
    /\ handlers[h].result = handlers[h].cached
    /\ ~Has(handlers[h].trace, "fetch")

\* C2: every call for a request whose URL contains '/api/', '/contact' or
\* '?fresh=true' is a networkFirstStrategy call; the first thing it does is issue the
\* fetch, and each of its cache lookups comes after the failure of that fetch.
C2_NetworkFirstFetchesFirst ==
  \A h \in Calls :
    LET hd == handlers[h]
    IN  (\/ Includes(hd.req.url, <<"/", "api", "/">>)
         \/ Includes(hd.req.url, <<"/", "contact">>)
         \/ Includes(hd.req.url, <<"?", "fresh=true">>)) =>
          /\ hd.strategy = "networkFirst"
          /\ hd.trace # <<>>
          /\ hd.trace[1] = "fetch"
          /\ \A i \in DOMAIN hd.trace :
               hd.trace[i] \in {"match", "matchOffline"} =>
                 \E j \in 1..(i - 1) : hd.trace[j] = "fetchFail"

C2_Witness ==
  \E h \in Calls :
    /\ handlers[h].strategy = "networkFirst"
    /\ Returned(handlers[h])
    /\ handlers[h].trace = <<"fetch", "fetchFail", "match">>
    /\ handlers[h].result = StoredAnywhere(handlers[h].req.url)
    /\ Truthy(handlers[h].result)

\* C3: staleWhileRevalidateStrategy: when the dynamic partition holds an entry for the
\* request that is not expired at the lookup, the call returns exactly that entry in
\* the same step, while its network fetch is still outstanding; and a response that
\* has been returned is never changed, whatever is written to the cache afterwards.
C3_StaleWhileRevalidateFreshHit ==
  [][\A h \in 1..MaxInFlight :
       /\ Steps(h, "swr_match") =>
            LET c == StoredIn(DYNAMIC_CACHE_NAME, handlers[h].req.url)
            IN  (Truthy(c) /\ ~isCacheExpired(c, Now)) =>
                  /\ Returned(handlers'[h])
                  /\ handlers'[h].result = c
                  /\ handlers'[h].bg = "pending"
       /\ (At(h, "done") /\ Len(handlers') = Len(handlers)) =>
            handlers'[h].result = handlers[h].result]_vars

C3_Witness ==
  \E h \in Calls :
    /\ handlers[h].strategy = "staleWhileRevalidate"
    /\ Returned(handlers[h])
    /\ Truthy(handlers[h].cached)
    /\ handlers[h].result = handlers[h].cached
    /\ Truthy(StoredIn(DYNAMIC_CACHE_NAME, handlers[h].req.url))
    /\ StoredIn(DYNAMIC_CACHE_NAME, handlers[h].req.url) # handlers[h].cached

\* C4: staleWhileRevalidateStrategy: when the dynamic partition held no entry for the
\* request and the network fetch failed, the call returns the synthetic 'Offline'
\* response.
C4_StaleWhileRevalidateOffline ==
  \A h \in Calls :
    LET hd == handlers[h]
    IN  (/\ hd.strategy = "staleWhileRevalidate"
         /\ Returned(hd)
         /\ ~Truthy(hd.cached)
         /\ Has(hd.trace, "fetchFail")) =>
          hd.result = OfflineResponse

\* C5: cacheFirstStrategy, navigation request, the fetch failed and no entry is cached
\* for the request: the call returns the cached '/offline.html' page when there is
\* one, and the synthetic 'Offline' response when there is none.
C5_CacheFirstOfflinePage ==
  \A h \in Calls :
    LET hd == handlers[h]
    IN  (/\ hd.strategy = "cacheFirst"
         /\ Returned(hd)
         /\ hd.req.mode = "navigate"
         /\ Has(hd.trace, "fetchFail")
         /\ ~Truthy(hd.fallback)) =>
          hd.result = IF Truthy(hd.offline) THEN hd.offline ELSE OfflineResponse

\* C6: networkFirstStrategy, after its fetch failed: the call returns the entry that
\* the cache storage holds for the request in any partition, expired or not, and
\* rejects when no partition holds one.
C6_NetworkFirstFallback ==
  [][\A h \in 1..MaxInFlight :
       /\ (Steps(h, "nf_fetch") /\ Has(handlers'[h].trace, "fetchFail")) =>
            handlers'[h].pc = "nf_catch"
       /\ Steps(h, "nf_catch") =>
            LET c == StoredAnywhere(handlers[h].req.url)
            IN  /\ Returned(handlers'[h])
                /\ handlers'[h].result = IF Truthy(c) THEN c ELSE Thrown]_vars

C6_Witness ==
  \E h \in Calls :
    /\ handlers[h].strategy = "networkFirst"
    /\ Returned(handlers[h])
    /\ Has(handlers[h].trace, "fetchFail")
    /\ Truthy(handlers[h].fallback)
    /\ handlers[h].result = handlers[h].fallback
    /\ isCacheExpired(handlers[h].fallback, Now)
    /\ \E i \in 2..Len(caches) : handlers[h].fallback \in caches[i].entries

\* C7: cacheFirstStrategy, after its fetch failed: the call returns the entry cached
\* for the request when there is one, expired or not; when there is none and the
\* request is not a navigation, it rejects.
C7_CacheFirstFallback ==
  [][\A h \in 1..MaxInFlight :
       /\ (Steps(h, "cf_fetch") /\ Has(handlers'[h].trace, "fetchFail")) =>
            handlers'[h].pc = "cf_catch"
       /\ Steps(h, "cf_catch") =>
            LET c == StoredAnywhere(handlers[h].req.url)
            IN  IF Truthy(c)
                  THEN Returned(handlers'[h]) /\ handlers'[h].result = c
                  ELSE handlers[h].req.mode # "navigate" =>
                         Returned(handlers'[h]) /\ handlers'[h].result = Thrown]_vars

C7_Witness ==
  \E h \in Calls :
    /\ handlers[h].strategy = "cacheFirst"
    /\ Returned(handlers[h])
    /\ Has(handlers[h].trace, "fetchFail")
    /\ Truthy(handlers[h].fallback)
    /\ handlers[h].result = handlers[h].fallback
    /\ isCacheExpired(handlers[h].fallback, Now)

\* C8 (as claimed): in cacheFirstStrategy and networkFirstStrategy, when the network
\* answers with a status other than 200 and an entry is cached for the request, the
\* call returns the cached entry.
C8_NonSuccessFallsBack ==
  \A h \in Calls :
    LET hd == handlers[h]
    IN  (/\ hd.strategy \in {"cacheFirst", "networkFirst"}
         /\ Returned(hd)
         /\ IsResponse(hd.net)
         /\ hd.net.status # 200
         /\ Truthy(StoredAnywhere(hd.req.url))) =>
          hd.result = StoredAnywhere(hd.req.url)

\* C8 (amended): in cacheFirstStrategy and networkFirstStrategy, a network response
\* with a status other than 200 is not a failure: the call returns that response as
\* it is, issues no cache.put for it and makes no fallback lookup.
C8_NonSuccessReturnedAsIs ==
  \A h \in Calls :
    LET hd == handlers[h]
    IN  (/\ hd.strategy \in {"cacheFirst", "networkFirst"}
         /\ IsResponse(hd.net)
         /\ hd.net.status # 200) =>
          /\ Returned(hd)
          /\ hd.result = hd.net
          /\ ~Has(hd.trace, "put")
          /\ ~Has(hd.trace, "fetchFail")
          /\ \A p \in puts : p.resp # hd.net

C8_Witness ==
  \E h \in Calls :
    /\ handlers[h].strategy \in {"cacheFirst", "networkFirst"}
    /\ Returned(handlers[h])
    /\ IsResponse(handlers[h].net)
    /\ handlers[h].net.status = 404
    /\ handlers[h].result = handlers[h].net
    /\ Truthy(StoredAnywhere(handlers[h].req.url))

\* C9: a cacheFirstStrategy request that found no cached entry and got a 200 from
\* the network has its response stored in the static partition and returned; an
\* identical request dispatched after that return, whose own fetch fails, returns
\* that same response.
C9_StoredThenServedOffline ==
  \A h \in Calls :
    LET hd == handlers[h]
    IN  (/\ hd.strategy = "cacheFirst"
         /\ Returned(hd)
         /\ Truthy(hd.owed)
         /\ Has(hd.trace, "fetchFail")) =>
          hd.result = hd.owed

\* C10: in cacheFirstStrategy and networkFirstStrategy, whenever the call has
\* returned a 200 network response, the partition it stores into already holds that
\* response for the request.
C10_StoredBeforeReturned ==
  \A h \in Calls :
    LET hd == handlers[h]
        partition == IF hd.strategy = "cacheFirst"
                       THEN getCacheName(hd.req) ELSE DYNAMIC_CACHE_NAME
    IN  (/\ hd.strategy \in {"cacheFirst", "networkFirst"}
         /\ Returned(hd)
         /\ IsResponse(hd.net)
         /\ hd.net.status = 200
         /\ hd.result = hd.net) =>
          StoredIn(partition, hd.req.url) = hd.net

\* the current partitions
Partitions == {STATIC_CACHE_NAME, DYNAMIC_CACHE_NAME}

\* the entries the cache called name holds
EntriesOf(cs, name) ==
  IF name \in CacheNames(cs) THEN cs[CacheIndex(cs, name)].entries ELSE {}

MaxForms == 3        \* records the page adds to the object store in one behaviour
MaxDrains == 2       \* handleOfflineFormSubmission calls that may be in flight at once
MaxFaults == 2       \* failures (network or storage) in one behaviour

SYNC_TAG == "consultation-form"

Tags == {SYNC_TAG, "other-tag"}

\* the statuses the replay's POST may be answered with
ReplayStatuses == {200, 201, 500}

\* a 2xx status: the success signal of a replay
Success(status) == status \in 200..299

\* (mutation of Ok: every response counts as ok)
Ok_Always(status) == TRUE

\* response.ok
Ok(status) == 200 <= status /\ status <= 299

\* a record of the object store: keyPath 'id'; the payload (form.data) is opaque and
\* sent as it is
Form(id) == [id |-> id]

\* (mutation of getOfflineForms: the records come latest first)
RECURSIVE getOfflineForms_LatestFirst(_)
getOfflineForms_LatestFirst(records) ==
  IF records = {} THEN <<>>
  ELSE LET last == CHOOSE r \in records : \A o \in records : o.id <= r.id
       IN  <<last>> \o getOfflineForms_LatestFirst(records \ {last})

\* store.getAll(): the records in ascending key order
RECURSIVE getOfflineForms(_)
getOfflineForms(records) ==
  IF records = {} THEN <<>>
  ELSE LET first == CHOOSE r \in records : \A o \in records : r.id <= o.id
       IN  <<first>> \o getOfflineForms(records \ {first})

\* A handleOfflineFormSubmission call. offlineForms is the array it read and i its
\* place in the for loop. The other fields record what it has done: the ids it has
\* sent a replay for, in order (attempts), those answered ok (ok), the store and
\* the deleted ids when it was called (q0) and when it read (seen), whether it ran
\* with no other call and no addition (alone), whether an operation on the store
\* failed (storeFailed), and how its promise settled (result).
NewDrain ==
  [pc |-> "openDB", offlineForms |-> <<>>, i |-> 0, attempts |-> <<>>, ok |-> {},
   q0 |-> store, seen |-> {}, alone |-> (drains = <<>>), storeFailed |-> FALSE,
   result |-> "pending"]

Drains == DOMAIN drains

DrainAt(d, pc) == d \in Drains /\ drains[d].pc = pc

\* every call in flight has now run beside another call or an addition
NotAlone(ds) == [k \in DOMAIN ds |-> [ds[k] EXCEPT !.alone = FALSE]]

\* the form the loop of call dr is at
Current(dr) == dr.offlineForms[dr.i]

\* the async function returns: it has no return value and, every error being
\* caught, its promise is fulfilled
Fulfil(dr) == [dr EXCEPT !.pc = "done", !.result = "fulfilled"]

\* the end of one iteration of `for (const form of offlineForms)`: the fetch for
\* the next form is issued, or the loop and the function end
NextForm(dr) ==
  IF dr.i < Len(dr.offlineForms)
    THEN [dr EXCEPT !.i = @ + 1, !.pc = "fetch",
                    !.attempts = Append(@, dr.offlineForms[dr.i + 1].id)]
    ELSE Fulfil(dr)

\* the steps of the drain leave the caches and the fetch handlers alone
QueueOnly == UNCHANGED <<cacheVars, expiryVars>>

\* the page adds a record: the key generator (autoIncrement) gives it the next id
Enqueue ==
  /\ nextId <= MaxForms
  /\ store' = store \cup {Form(nextId)}
  /\ nextId' = nextId + 1
  /\ drains' = NotAlone(drains)
  /\ UNCHANGED <<succeeded, deleted, faults>>
  /\ QueueOnly

\* sync listener: a sync event with the form tag calls handleOfflineFormSubmission
\* and hands its promise to waitUntil; openDB is issued. Any other tag is ignored.
Sync(tag) ==
  /\ Len(drains) < MaxDrains
  /\ drains' = IF tag = SYNC_TAG THEN Append(NotAlone(drains), NewDrain) ELSE drains
  /\ UNCHANGED <<store, nextId, succeeded, deleted, faults>>
  /\ QueueOnly

\* openDB resolves; getOfflineForms is issued
OpenDbOk(d) ==
  /\ DrainAt(d, "openDB")
  /\ drains' = [drains EXCEPT ![d].pc = "getAll"]
  /\ UNCHANGED <<store, nextId, succeeded, deleted, faults>>
  /\ QueueOnly

\* a rejection inside the outer try: the outer catch logs it and the function ends
OuterCatch(dr) == Fulfil([dr EXCEPT !.storeFailed = TRUE])

\* openDB rejects (request.onerror)
OpenDbFail(d) ==
  /\ DrainAt(d, "openDB")
  /\ faults > 0
  /\ faults' = faults - 1
  /\ drains' = [drains EXCEPT ![d] = OuterCatch(@)]
  /\ UNCHANGED <<store, nextId, succeeded, deleted>>
  /\ QueueOnly

\* (mutation of GetAllOk: the records are those held when the drain was called)
GetAllOk_StaleRead(d) ==
  /\ DrainAt(d, "getAll")
  /\ drains' = [drains EXCEPT ![d] =
       NextForm([@ EXCEPT !.offlineForms = getOfflineForms(drains[d].q0), !.seen = deleted])]
  /\ UNCHANGED <<store, nextId, succeeded, deleted, faults>>
  /\ QueueOnly

\* getOfflineForms resolves with the records; the loop starts
GetAllOk(d) ==
  /\ DrainAt(d, "getAll")
  /\ drains' = [drains EXCEPT ![d] =
       NextForm([@ EXCEPT !.offlineForms = getOfflineForms(store), !.seen = deleted])]
  /\ UNCHANGED <<store, nextId, succeeded, deleted, faults>>
  /\ QueueOnly

\* getOfflineForms rejects
GetAllFail(d) ==
  /\ DrainAt(d, "getAll")
  /\ faults > 0
  /\ faults' = faults - 1
  /\ drains' = [drains EXCEPT ![d] = OuterCatch(@)]
  /\ UNCHANGED <<store, nextId, succeeded, deleted>>
  /\ QueueOnly

\* the replay's fetch resolves: on response.ok deleteOfflineForm is issued,
\* otherwise the loop goes on
ReplayResponse(d, status) ==
  /\ DrainAt(d, "fetch")
  /\ Ok(status) \/ faults > 0
  /\ faults' = IF Ok(status) THEN faults ELSE faults - 1
  /\ succeeded' = IF Success(status) THEN succeeded \cup {Current(drains[d]).id}
                                      ELSE succeeded
  /\ drains' = [drains EXCEPT ![d] =
       IF Ok(status)
         THEN [@ EXCEPT !.pc = "delete", !.ok = @ \cup {Current(drains[d]).id}]
         ELSE NextForm(@)]
  /\ UNCHANGED <<store, nextId, deleted>>
  /\ QueueOnly

\* (mutation of ReplayReject: the rejection ends the drain)
ReplayReject_Abort(d) ==
  /\ DrainAt(d, "fetch")
  /\ faults > 0
  /\ faults' = faults - 1
  /\ drains' = [drains EXCEPT ![d] = Fulfil(@)]
  /\ UNCHANGED <<store, nextId, succeeded, deleted>>
  /\ QueueOnly

\* the replay's fetch rejects: the inner catch logs it and the loop goes on
ReplayReject(d) ==
  /\ DrainAt(d, "fetch")
  /\ faults > 0
  /\ faults' = faults - 1
  /\ drains' = [drains EXCEPT ![d] = NextForm(@)]
  /\ UNCHANGED <<store, nextId, succeeded, deleted>>
  /\ QueueOnly

\* (mutation of DeleteOk: the record is not removed)
DeleteOk_KeepsRecord(d) ==
  /\ DrainAt(d, "delete")
  /\ drains' = [drains EXCEPT ![d] = NextForm(@)]
  /\ UNCHANGED <<store, nextId, succeeded, deleted, faults>>
  /\ QueueOnly

\* deleteOfflineForm resolves: the record is gone; the loop goes on
DeleteOk(d) ==
  /\ DrainAt(d, "delete")
  /\ store' = store \ {Form(Current(drains[d]).id)}
  /\ deleted' = deleted \cup {Current(drains[d]).id}
  /\ drains' = [drains EXCEPT ![d] = NextForm(@)]
  /\ UNCHANGED <<nextId, succeeded, faults>>
  /\ QueueOnly

\* deleteOfflineForm rejects: the await is inside the inner try, so the inner catch
\* logs it and the loop goes on
DeleteFail(d) ==
  /\ DrainAt(d, "delete")
  /\ faults > 0
  /\ faults' = faults - 1
  /\ drains' = [drains EXCEPT ![d] = NextForm([@ EXCEPT !.storeFailed = TRUE])]
  /\ UNCHANGED <<store, nextId, succeeded, deleted>>
  /\ QueueOnly

handleOfflineFormSubmission(d) ==
  \/ OpenDbOk(d)
  \/ OpenDbFail(d)
  \/ GetAllOk(d)
  \/ GetAllFail(d)
  \/ \E st \in ReplayStatuses : ReplayResponse(d, st)
  \/ ReplayReject(d)
  \/ DeleteOk(d)
  \/ DeleteFail(d)

\* waitUntil has taken the settled promise: the call is over
DrainRelease(d) ==
  /\ DrainAt(d, "done")
  /\ drains' = SubSeq(drains, 1, d - 1) \o SubSeq(drains, d + 1, Len(drains))
  /\ UNCHANGED <<store, nextId, succeeded, deleted, faults>>
  /\ QueueOnly

\* the worker is active, no fetch event is being handled, the object store is empty
QueueInit ==
  /\ caches = <<>>
  /\ phase = "activated"
  /\ sweep = {}
  /\ handlers = <<>>
  /\ puts = {}
  /\ tick = 0
  /\ started = 0
  /\ atKeys = <<>>
  /\ legacy = "none"
  /\ store = {}
  /\ nextId = 1
  /\ drains = <<>>
  /\ succeeded = {}
  /\ deleted = {}
  /\ faults = MaxFaults
  /\ entry = Undefined
  /\ clock = 0
  /\ expired = {}

QueueNext ==
  \/ Enqueue
  \/ \E tag \in Tags : Sync(tag)
  \/ \E d \in 1..MaxDrains : handleOfflineFormSubmission(d)
  \/ \E d \in 1..MaxDrains : DrainRelease(d)

QueueSpec == QueueInit /\ [][QueueNext]_vars

\* ------------------------------------------------------------ queue properties
\* this step is a step of call d in which it sends a replay
SendsReplay(d) ==
  /\ d \in Drains
  /\ Len(drains') = Len(drains)
  /\ Len(drains'[d].attempts) > Len(drains[d].attempts)

\* the id of the replay call d sends in this step
Sent(d) == drains'[d].attempts[Len(drains'[d].attempts)]

Ids(forms) == { forms[k].id : k \in DOMAIN forms }

\* C12: a drain sends its replays one at a time in ascending identifier order and
\* skips no record it has read: each replay it sends is for the smallest id it read
\* that is above the ids it has already attempted, and is sent only when the previous
\* replay has been answered and, if the answer was ok, the deletion of that record
\* has completed.
C12_ReplayInInsertionOrder ==
  [][ \A d \in 1..MaxDrains : SendsReplay(d) =>
        LET before == drains[d]
            after == drains'[d]
            done == { before.attempts[k] : k \in DOMAIN before.attempts }
        IN  /\ after.attempts = Append(before.attempts, Sent(d))
            /\ Sent(d) \in Ids(after.offlineForms) \ done
            /\ \A id \in Ids(after.offlineForms) : id < Sent(d) => id \in done
            /\ before.pc \in {"getAll", "fetch", "delete"}
            /\ before.pc = "fetch" => Current(before).id \notin after.ok ]_vars

\* a drain that read three records has sent the three replays, the first answered
\* ok and its record deleted, the second not answered ok
C12_Witness ==
  \E d \in Drains :
    /\ drains[d].attempts = <<1, 2, 3>>
    /\ 1 \in drains[d].ok /\ 1 \in deleted
    /\ 2 \notin drains[d].ok

QueueFairness ==
  /\ WF_vars(Sync(SYNC_TAG))
  /\ \A d \in 1..MaxDrains : WF_vars(handleOfflineFormSubmission(d))
  /\ \A d \in 1..MaxDrains : WF_vars(DrainRelease(d))

QueueLive == QueueSpec /\ QueueFairness

\* C14: a record whose replay failed is still in the object store, and every record
\* in the object store is eventually deleted from it.
C14_EventuallyDrained ==
  /\ [][ \A d \in 1..MaxDrains : \A f \in store :
           ( /\ DrainAt(d, "fetch")
             /\ Len(drains') = Len(drains)
             /\ drains'[d] # drains[d]
             /\ Current(drains[d]).id = f.id
             /\ f.id \notin drains'[d].ok ) => f \in store' ]_vars
  /\ \A id \in 1..MaxForms : (Form(id) \in store) ~> (id \in deleted)

\* two drains are in flight: the older has ended and its replay of the first record
\* was not answered ok, the newer has had it answered ok and has deleted it
C14_Witness ==
  \E d1 \in Drains : \E d2 \in Drains :
    /\ d1 < d2
    /\ drains[d1].pc = "done"
    /\ drains[d1].attempts = <<1>>
    /\ 1 \notin drains[d1].ok
    /\ 1 \in drains[d2].ok
    /\ 1 \in deleted
    /\ Form(1) \notin store

\* C15: a drain that reads the store after a record was deleted sends no replay for
\* that record; a drain that reads an empty store sends no replay, and its steps
\* leave the store as it is.
C15_SecondDrainSkipsDeleted ==
  [][ \A d \in 1..MaxDrains :
        /\ SendsReplay(d) => Sent(d) \notin drains'[d].seen
        /\ ( /\ DrainAt(d, "getAll")
             /\ Len(drains') = Len(drains)
             /\ drains'[d].pc # "getAll"
             /\ ~drains'[d].storeFailed
             /\ store = {} ) =>
               /\ drains'[d].pc = "done"
               /\ drains'[d].attempts = <<>>
               /\ store' = store
               /\ deleted' = deleted /\ succeeded' = succeeded ]_vars

\* a drain called after the first record was deleted, with no addition since, has
\* read the store and sent a replay for the second record only
C15_Witness ==
  \E d \in Drains :
    /\ drains[d].alone
    /\ drains[d].seen = {1}
    /\ drains[d].q0 = {Form(2)}
    /\ drains[d].attempts = <<2>>
    /\ nextId = 3

\* C16: no drain sends a replay for a record that has been deleted from the object
\* store, however the drains interleave.
C16_NoReplayAfterDelete ==
  [][ \A d \in 1..MaxDrains : SendsReplay(d) => Sent(d) \notin deleted ]_vars

\* C17: every id that has been deleted from the object store has had a replay
\* answered with a 2xx status, and a step deletes a record only as the completion of
\* the deleteOfflineForm of a drain whose own replay of that record was so answered.
C17_DeletedOnlyAfterSuccess ==
  [][ /\ deleted' \subseteq succeeded'
      /\ \A id \in deleted' \ deleted :
           /\ id \in succeeded
           /\ Form(id) \in store /\ Form(id) \notin store'
           /\ \E d \in Drains : /\ DrainAt(d, "delete")
                                /\ Current(drains[d]).id = id
                                /\ drains'[d].pc # "delete"
      /\ \A f \in store \ store' : f.id \in deleted' ]_vars

\* the first record's replay was answered 500 and it is still stored; the second's
\* was answered ok and it has been deleted
C17_Witness ==
  /\ 2 \in deleted /\ 2 \in succeeded
  /\ 1 \notin succeeded
  /\ store = {Form(1)}
  /\ \E d \in Drains : drains[d].attempts = <<1, 2>> /\ drains[d].pc = "done"

\* C18: a drain during which an operation on the object store failed (open, read or
\* delete) ends with its promise rejected, so that waitUntil sees the failure.
C18_StorageFailureSurfaced ==
  \A d \in Drains :
    (drains[d].pc = "done" /\ drains[d].storeFailed) => drains[d].result = "rejected"

\* ============================================================ expiry policy
\* isCacheExpired as a function of the stored response and the time, checked under
\* a specification of its own, ExpirySpec: a response is stored with one of the
\* URL shapes and a Date header, time passes, and the response is tested.

Slack == 1      \* seconds looked at on each side of a max-age

\* the URLs of the stored responses: a precached page, an asset, an API resource,
\* an API resource under /assets/, and an ordinary page
EntryPaths ==
  { <<"/">>,
    <<"/", "assets", "/", "css", "/", "styles.css">>,
    <<"/", "api", "/", "data">>,
    <<"/", "api", "/", "assets", "/", "list">>,
    <<"/", "offline.html">> }

\* the Date header of a stored response: none, or a time
EntryDates == {NoDate} \cup 0..Slack

\* the times at which a response is tested: around each max-age after the dates
Instants ==
  { a + k : a \in {CACHE_MAX_AGE.api, CACHE_MAX_AGE.dynamic, CACHE_MAX_AGE.static},
            k \in (0 - Slack)..(2 * Slack) }

\* a response is stored (cache.put); what was known of the previous one is void
StoreEntry(path, date) ==
  /\ entry' = Response(Url(path), 200, "b1", date)
  /\ expired' = {}
  /\ UNCHANGED <<clock, cacheVars, queueVars>>

\* time passes
Advance(t) ==
  /\ t > clock
  /\ clock' = t
  /\ expired' = {}
  /\ UNCHANGED <<entry, cacheVars, queueVars>>

\* isCacheExpired(entry) is evaluated now
CheckExpired ==
  /\ IsResponse(entry)
  /\ expired = {}
  /\ expired' = {isCacheExpired(entry, clock)}
  /\ UNCHANGED <<entry, clock, cacheVars, queueVars>>

ExpiryInit ==
  /\ caches = <<>>
  /\ phase = "activated"
  /\ sweep = {}
  /\ handlers = <<>>
  /\ puts = {}
  /\ tick = 0
  /\ started = 0
  /\ atKeys = <<>>
  /\ legacy = "none"
  /\ store = {} /\ nextId = 1 /\ drains = <<>> /\ succeeded = {} /\ deleted = {}
  /\ faults = 0
  /\ entry = Undefined
  /\ clock = 0
  /\ expired = {}

ExpiryNext ==
  \/ \E path \in EntryPaths : \E date \in EntryDates : StoreEntry(path, date)
  \/ \E t \in Instants : Advance(t)
  \/ CheckExpired

ExpirySpec == ExpiryInit /\ [][ExpiryNext]_vars

\* ------------------------------------------------------------ expiry properties
\* the age of the entry under test: the time since its Date header, 0 without one
Age == IF entry.date = NoDate THEN 0 ELSE clock - entry.date

\* the expiry class of the entry under test, by the shape of its URL
ExpiryClass ==
  IF Includes(entry.url, <<"/", "api", "/">>) THEN "api"
  ELSE IF isStaticAsset([url |-> entry.url]) THEN "static"
  ELSE "dynamic"

Days == 24 * 60 * 60

\* C19: a static-class entry tested at an age of exactly 30 days is expired, and
\* tested at an age of 30 days minus one second it is not.
C19_StaticBoundary ==
  (expired # {} /\ ExpiryClass = "static") =>
     /\ Age = 30 * Days => expired = {TRUE}
     /\ Age = 30 * Days - 1 => expired = {FALSE}

\* C19 (amended): a static-class entry tested at an age of exactly 30 days, or of 30
\* days minus one second, is not expired; tested at 30 days plus one second it is.
C19_StaticBoundaryStrict ==
  (expired # {} /\ ExpiryClass = "static") =>
     /\ Age = 30 * Days - 1 => expired = {FALSE}
     /\ Age = 30 * Days => expired = {FALSE}
     /\ Age = 30 * Days + 1 => expired = {TRUE}

\* a precached page dated 1 has been tested at the age of exactly 30 days and found
\* not expired
C19_Witness ==
  /\ expired = {FALSE}
  /\ ExpiryClass = "static"
  /\ entry.date = 1
  /\ Age = 30 * Days

\* C20: isCacheExpired returns true exactly when the age of the entry is strictly
\* above the max-age of its class: one hour for api, 30 days for static, 7 days for
\* dynamic; an entry without a Date header has age 0 and is not expired.
C20_ExpiredIffAgeExceeds ==
  expired # {} =>
     /\ expired = {Age > CASE ExpiryClass = "api" -> 60 * 60
                           [] ExpiryClass = "static" -> 30 * Days
                           [] ExpiryClass = "dynamic" -> 7 * Days}
     /\ entry.date = NoDate => expired = {FALSE}

\* an API resource under /assets/ is found expired one second after an hour, and so
\* is in the api class though it matches the static-asset rule
C20_Witness ==
  /\ expired = {TRUE}
  /\ Includes(entry.url, <<"/", "api", "/">>)
  /\ isStaticAsset([url |-> entry.url])
  /\ Age = 60 * 60 + 1

\* ============================================================ lifecycle properties
\* a cache of a previous version: its name has the application prefix and is not the
\* name of a current partition
NonCurrent(name) ==
  /\ Len(name) > 0
  /\ name[1] = "geniusglider-"
  /\ name \notin Partitions

Kept(c) == ~NonCurrent(c.name)

\* this step completes the activation
ActivationCompletes == phase # "activated" /\ phase' = "activated"

\* C21: when activation completes, the cache storage is what caches.keys() found
\* without the caches of previous versions: those are all gone, and the current
\* partitions and the caches without the prefix are there with the same entries.
C21_SweepRemovesExactlyNonCurrent ==
  [][ ActivationCompletes => caches' = SelectSeq(atKeys, Kept) ]_vars

\* activation has completed over a storage that held a cache of the previous
\* version, the current static partition and a cache of another library: the first
\* is gone, the other two are still there
C21_Witness ==
  /\ phase = "activated"
  /\ started = 0
  /\ Len(atKeys) = 3
  /\ CacheNames(caches) = {STATIC_CACHE_NAME, <<"third-party-cache">>}

\* C22: when the install's awaited work completes, the static partition holds an
\* entry for every path of STATIC_FILES.
C22_InstalledOnlyIfPrecached ==
  [][ (phase = "install_addAll" /\ phase' = "installed") =>
        \A f \in STATIC_FILES :
          \E e \in EntriesOf(caches', STATIC_CACHE_NAME) : e.url = Url(f) ]_vars

\* C23: when activation completes (clients.claim and the end of waitUntil), no
\* deletion of the sweep is outstanding and every cache the sweep was to delete is
\* gone.
C23_ClaimAfterSweep ==
  [][ ActivationCompletes =>
        /\ sweep = {}
        /\ \A k \in DOMAIN atKeys :
             NonCurrent(atKeys[k].name) => atKeys[k].name \notin CacheNames(caches) ]_vars

\* the worker has taken over after a sweep that had a cache to delete, and has
\* handled a fetch event since
C23_Witness ==
  /\ phase = "activated"
  /\ sweep = {}
  /\ started > 0
  /\ \E k \in DOMAIN atKeys :
       NonCurrent(atKeys[k].name) /\ atKeys[k].name \notin CacheNames(caches)

\* ============================================================ classifier
\* The fetch listener's choice of a strategy as a function of the request, checked
\* under a specification of its own, ClassifySpec: fetch events are dispatched for
\* requests of every URL shape and no strategy step is taken.

ClassifierPaths ==
  { <<"/">>,
    <<"/", "index.html">>,
    <<"/", "assets", "/", "css", "/", "styles.css">>,
    <<"/", "assets", "/", "images", "/", "new.png">>,
    <<"/", "api", "/", "data">>,
    <<"/", "api", "/", "assets", "/", "list">>,
    <<"/", "contact">>,
    <<"/", "about">> }

\* no query, the fresh marker, and a query that names an asset
ClassifierQueries ==
  { <<>>,
    <<"?", "fresh=true">>,
    <<"?", "next=", "/", "assets", "/", "css", "/", "styles.css">> }

ClassifierRequests ==
  { Request(path \o query, method, "cors") :
      path \in ClassifierPaths, query \in ClassifierQueries, method \in {"GET", "POST"} }
  \cup { [url |-> <<"chrome-extension", "://abc/", "x.js">>, method |-> "GET", mode |-> "no-cors"] }

\* the worker is active and nothing is stored
ClassifyInit ==
  /\ caches = <<>>
  /\ phase = "activated"
  /\ sweep = {}
  /\ handlers = <<>>
  /\ puts = {}
  /\ tick = 0
  /\ started = 0
  /\ atKeys = <<>>
  /\ legacy = "none"
  /\ store = {} /\ nextId = 1 /\ drains = <<>> /\ succeeded = {} /\ deleted = {}
  /\ faults = 0
  /\ entry = Undefined
  /\ clock = 0
  /\ expired = {}

ClassifyNext == \E r \in ClassifierRequests : FetchEvent(r)

ClassifySpec == ClassifyInit /\ [][ClassifyNext]_vars

\* ------------------------------------------------------------ classifier properties
\* the path of the URL contains the assets marker
PathHasAssets(url) == Includes(Pathname(url), <<"/", "assets", "/">>)

\* the URL contains one of the three network-first patterns
MatchesNetworkFirst(url) ==
  \/ Includes(url, <<"/", "api", "/">>)
  \/ Includes(url, <<"/", "contact">>)
  \/ Includes(url, <<"?", "fresh=true">>)

\* C24: every handled request is given to networkFirstStrategy if its URL contains a
\* network-first pattern; else to cacheFirstStrategy if its path is one of
\* STATIC_FILES or its path contains the assets marker; else to
\* staleWhileRevalidateStrategy.
C24_StrategyByPriority ==
  \A h \in Calls :
    LET url == handlers[h].req.url
    IN  handlers[h].strategy =
          IF MatchesNetworkFirst(url) THEN "networkFirst"
          ELSE IF Pathname(url) \in STATIC_FILES \/ PathHasAssets(url) THEN "cacheFirst"
          ELSE "staleWhileRevalidate"

\* C25: a fetch event either hands its request, a GET for an http(s) URL, to a
\* strategy, or changes nothing: no strategy call is started for a request that is
\* not GET or not http(s), and then the caches, the outstanding writes and the
\* offline forms store are as they were.
C25_OthersPassedThrough ==
  [][ started' # started =>
        /\ caches' = caches /\ puts' = puts
        /\ store' = store /\ drains' = drains
        /\ \/ handlers' = handlers
           \/ /\ Len(handlers') = Len(handlers) + 1
              /\ SubSeq(handlers', 1, Len(handlers)) = handlers
              /\ handlers'[Len(handlers')].req.method = "GET"
              /\ handlers'[Len(handlers')].req.url[1] = "http"
              /\ handlers'[Len(handlers')].result = Pending ]_vars

\* two fetch events have been dispatched and neither request was handed to a
\* strategy
C25_Witness ==
  /\ started = 2
  /\ handlers = <<>>
  /\ caches = <<>>

\* ============================================================ background refresh
\* Every cache.put that was issued completes.
SpecFairness == WF_vars(\E p \in puts : PutComplete(p))

SpecLive == Spec /\ SpecFairness

\* how often event e occurs in a trace
RECURSIVE Count(_, _)
Count(seq, e) ==
  IF seq = <<>> THEN 0
  ELSE (IF Head(seq) = e THEN 1 ELSE 0) + Count(Tail(seq), e)

\* the cache.put calls staleWhileRevalidateStrategy can issue
RefreshPuts ==
  { [name |-> DYNAMIC_CACHE_NAME, resp |-> Response(r.url, 200, b, t * TickSeconds)] :
      r \in Requests, b \in Bodies, t \in 0..MaxTicks }

\* C26: a staleWhileRevalidateStrategy call has issued one fetch once its lookup is
\* done, whether or not it returned the cached entry, and none before; the call is
\* not discarded while the fetch is outstanding; a fetch answered 200 issues the
\* cache.put of that response into the dynamic partition, also when the call has
\* already returned; and every such put completes, at which point the partition
\* holds that response for the request.
C26_RefreshAlwaysStoresOk ==
  /\ [][ /\ \A h \in DOMAIN handlers' :
              handlers'[h].strategy = "staleWhileRevalidate" =>
                /\ Count(handlers'[h].trace, "fetch") =
                     IF handlers'[h].pc \in {"swr_open", "swr_match"} THEN 0 ELSE 1
                /\ handlers'[h].pc \in {"swr_open", "swr_match"} <=> handlers'[h].bg = "none"
         /\ Len(handlers') < Len(handlers) =>
              \E h \in Calls :
                /\ handlers[h].bg # "pending"
                /\ handlers' = SubSeq(handlers, 1, h - 1) \o
                               SubSeq(handlers, h + 1, Len(handlers))
         /\ \A h \in Calls :
              ( /\ Fetching(h)
                /\ Len(handlers') = Len(handlers)
                /\ handlers'[h].bg = "done"
                /\ IsResponse(handlers'[h].net)
                /\ handlers'[h].net.status = 200 ) =>
                   [name |-> DYNAMIC_CACHE_NAME, resp |-> handlers'[h].net] \in puts'
         /\ \A p \in puts \ puts' :
              MatchCache(caches', p.name, p.resp.url) = p.resp ]_vars
  /\ \A p \in RefreshPuts : (p \in puts) ~> (p \notin puts)

\* a staleWhileRevalidateStrategy call returned the fresh cached entry; its fetch was
\* then answered 200 and the put has completed: the dynamic partition holds the
\* network response, which is not the one returned
C26_Witness ==
  \E h \in Calls :
    /\ handlers[h].strategy = "staleWhileRevalidate"
    /\ Returned(handlers[h])
    /\ handlers[h].result = handlers[h].cached
    /\ handlers[h].bg = "done"
    /\ IsResponse(handlers[h].net)
    /\ handlers[h].net # handlers[h].cached
    /\ StoredIn(DYNAMIC_CACHE_NAME, handlers[h].req.url) = handlers[h].net
    /\ puts = {}

\* ============================================================ version transition
\* The worker is installed over a previous version (v0.9.0, the same code with the
\* previous cache names), one of whose cacheFirstStrategy calls is still waiting for
\* its fetch. Checked under a specification of its own, TransitionSpec.

PREVIOUS_STATIC_CACHE_NAME == <<"geniusglider-", "static-v0.9.0">>

\* the request of the outstanding call of the previous version
LegacyRequest == Request(<<"/", "assets", "/", "css", "/", "styles.css">>, "GET", "no-cors")

\* the fetch of the previous version's call is answered 200; it calls caches.open
LegacyFetchOk ==
  /\ legacy = "fetch"
  /\ legacy' = "open"
  /\ UNCHANGED <<caches, phase, sweep, handlers, puts, tick, started, atKeys>>
  /\ UNCHANGED <<queueVars, expiryVars>>

\* its caches.open resolves, creating the cache again if the sweep has deleted it;
\* cache.put is issued
LegacyOpen ==
  /\ legacy = "open"
  /\ legacy' = "done"
  /\ caches' = OpenCache(caches, PREVIOUS_STATIC_CACHE_NAME)
  /\ puts' = puts \cup {[name |-> PREVIOUS_STATIC_CACHE_NAME,
                         resp |-> Response(LegacyRequest.url, 200, "b0", Now)]}
  /\ UNCHANGED <<phase, sweep, handlers, tick, started, atKeys>>
  /\ UNCHANGED <<queueVars, expiryVars>>

TransitionInit ==
  /\ caches \in InitialCaches \ {<<>>}
  /\ phase = "parsed"
  /\ sweep = {}
  /\ handlers = <<>>
  /\ puts = {}
  /\ tick = 0
  /\ started = 0
  /\ atKeys = <<>>
  /\ legacy = "fetch"
  /\ store = {} /\ nextId = 1 /\ drains = <<>> /\ succeeded = {} /\ deleted = {}
  /\ faults = 0
  /\ entry = Undefined
  /\ clock = 0
  /\ expired = {}

TransitionNext ==
  \/ Next
  \/ LegacyFetchOk
  \/ LegacyOpen

TransitionSpec == TransitionInit /\ [][TransitionNext]_vars

\* C27: no strategy call of the current version returns an entry held by a cache of
\* a previous version.
C27_NeverServedFromNonCurrent ==
  \A h \in Calls :
    Returned(handlers[h]) =>
      ~ \E k \in DOMAIN caches :
          /\ NonCurrent(caches[k].name)
          /\ handlers[h].result \in caches[k].entries

\* ============================================================ partition roles
\* The strategies over requests whose URL has the shape of a static asset and also
\* contains a network-first pattern, checked under a specification of its own,
\* RolesSpec: the worker of Spec with these requests.
RoleRequests ==
  { Request(<<"/">>, "GET", "navigate"),
    Request(<<"/", "api", "/", "assets", "/", "list">>, "GET", "cors"),
    Request(<<"/", "assets", "/", "css", "/", "styles.css", "?", "fresh=true">>, "GET", "no-cors"),
    Request(<<"/", "offline.html">>, "GET", "navigate") }

RolesNext ==
  \/ InstallStart \/ InstallOpen \/ InstallAddAllOk \/ InstallAddAllFail
  \/ ActivateStart \/ ActivateKeys \/ ActivateClaim
  \/ \E n \in sweep : ActivateDelete(n)
  \/ \E r \in RoleRequests : FetchEvent(r)
  \/ \E h \in 1..MaxInFlight : cacheFirstStrategy(h)
  \/ \E h \in 1..MaxInFlight : networkFirstStrategy(h)
  \/ \E h \in 1..MaxInFlight : staleWhileRevalidateStrategy(h)
  \/ \E h \in 1..MaxInFlight : Release(h)
  \/ \E p \in puts : PutComplete(p)
  \/ Tick

RolesSpec == Init /\ [][RolesNext]_vars

Urls(entries) == { e.url : e \in entries }

\* C28: every cache.put a strategy issues goes to the static partition if the
\* strategy is cacheFirstStrategy and to the dynamic partition otherwise; every entry
\* of the static partition is for a URL that satisfies the static-asset test and
\* contains no network-first pattern; and no URL has an entry in both partitions.
C28_PartitionRoles ==
  [][ /\ \A p \in puts' \ puts :
           \E h \in Calls :
             /\ handlers[h].req.url = p.resp.url
             /\ p.name = IF handlers[h].strategy = "cacheFirst"
                           THEN STATIC_CACHE_NAME ELSE DYNAMIC_CACHE_NAME
      /\ \A e \in EntriesOf(caches', STATIC_CACHE_NAME) :
           /\ isStaticAsset([url |-> e.url])
           /\ ~MatchesNetworkFirst(e.url)
      /\ Urls(EntriesOf(caches', STATIC_CACHE_NAME)) \cap
         Urls(EntriesOf(caches', DYNAMIC_CACHE_NAME)) = {} ]_vars

\* the dynamic partition holds the responses of two network-first requests whose
\* URLs satisfy the static-asset test, and the static partition holds the
\* precached files
C28_Witness ==
  /\ { Url(<<"/", "api", "/", "assets", "/", "list">>),
       Url(<<"/", "assets", "/", "css", "/", "styles.css", "?", "fresh=true">>) }
       \subseteq Urls(EntriesOf(caches, DYNAMIC_CACHE_NAME))
  /\ Url(<<"/", "assets", "/", "css", "/", "styles.css">>)
       \in Urls(EntriesOf(caches, STATIC_CACHE_NAME))

\* ============================================================ entries are kept
\* C29: a staleWhileRevalidateStrategy call whose lookup found an expired entry and
\* whose fetch failed returns a response, namely that entry.
C29_StaleWhileRevalidateReturnsStale ==
  \A h \in Calls :
    LET hd == handlers[h]
    IN  ( /\ hd.strategy = "staleWhileRevalidate"
          /\ Returned(hd)
          /\ Truthy(hd.cached)
          /\ Has(hd.trace, "fetchFail") ) =>
            /\ IsResponse(hd.result)
            /\ hd.result = hd.cached

\* C30: once the worker is active, no step removes a URL from a current partition,
\* and an entry changes only by the completion of a cache.put of a 200 response for
\* its URL, which takes its place; so an expired entry stays until it is overwritten.
C30_EntriesOnlyOverwritten ==
  [][ phase = "activated" =>
        \A name \in Partitions :
          \A e \in EntriesOf(caches, name) :
            \/ e \in EntriesOf(caches', name)
            \/ \E p \in puts \ puts' :
                 /\ p.name = name
                 /\ p.resp.url = e.url
                 /\ p.resp.status = 200
                 /\ MatchCache(caches', name, e.url) = p.resp ]_vars

\* after 32 days the precached entry for the start page, long expired, is still in
\* the static partition, though a call has since fetched the page and been answered
\* 404
C30_Witness ==
  /\ tick = 2
  /\ Response(Url(<<"/">>), 200, "b1", 0) \in EntriesOf(caches, STATIC_CACHE_NAME)
  /\ \E h \in Calls :
       /\ handlers[h].req.url = Url(<<"/">>)
       /\ Returned(handlers[h])
       /\ IsResponse(handlers[h].net)
       /\ handlers[h].net.status = 404

====
